---- MODULE Spec2Model ----
(***************************************************************************)
(* Model of the star-detection tool of Live-Skyboxes                       *)
(* (src/Star_Detection_and_Data_Generation/starDetection.py) and of the    *)
(* object-file reader (src/SpaceEngine_Automation/seObjectParser.py).      *)
(*                                                                         *)
(* Ten specifications share the module's variables:                        *)
(*   SpecFilter      filterBySeparation applied to bounded candidate       *)
(*                   lists, then applied again to its own output;          *)
(*   SpecMatch       matchPoints applied to bounded point lists;           *)
(*   Spec            the interactive session (App): loadImage, updateView, *)
(*                   a name edit in the table (DetectionModel.setData,     *)
(*                   which calls App.onModelChanged through nameEdited),   *)
(*                   onEditMeta and onExportTxt;                           *)
(*   SpecProjection  imageXYtoEquatorial applied to one pixel;             *)
(*   SpecExport      one run of App.onExportTxt;                           *)
(*   SpecDetect      the kernel size and the z-score of detectStars;       *)
(*   SpecHalo        the candidate mask of detectStars;                    *)
(*   SpecComponents  the rows detectStars returns;                         *)
(*   SpecParse       parseBlocks applied to a bounded text;                *)
(*   SpecFind        findBlock applied to a bounded forest of Blocks.      *)
(*                                                                         *)
(* Pixel centres are integers here (the code's centroids are floats); all  *)
(* the code does with them is subtract, square, add and compare, which is  *)
(* exact on the integers.  Python's None is 0 for a list index (indices    *)
(* are 1-based here, so out[j] = i+1 models the code's out[j] = i) and a   *)
(* record with has = FALSE for an optional string.                         *)
(***************************************************************************)
EXTENDS Integers, Sequences, FiniteSets, TLC

VARIABLES
    \* ---- SpecFilter: one call of filterBySeparation and a second call on its output
    fpc,        \* "input" | "filtered" | "refiltered" | "idle"
    fRows,      \* argument rows
    fMinSep,    \* argument minSeparation
    fMaxKeep,   \* argument maxKeep
    fKept,      \* result of filterBySeparation(fRows,fMinSep,fMaxKeep)
    fKept2,     \* result of filterBySeparation(fKept,fMinSep,fMaxKeep)
    \* ---- SpecMatch: one call of matchPoints
    mpc,        \* "input" | "matched" | "idle"
    mPrevPts,   \* argument prevPts
    mNewPts,    \* argument newPts
    mMaxDist,   \* argument maxDist
    mOut,       \* result: out[j] = 0 (None) or a 1-based index into prevPts
    \* ---- Spec: the session state of App
    bgr,        \* App.bgr: "None" or "image"
    meta,       \* App.meta: None or a ProjectionMeta
    previewMode,\* App.previewMode: "single" | "dual"
    prevPts,    \* App.prevPts
    prevMeta,   \* App.prevMeta: records [id, name, custom]
    modelRows,  \* App.model.rows: records [centerX, centerY, sumIntensity, id, name]
    report,     \* the text of the message box the last handler showed, "" if none
    metaAccepted, \* the MetaDialog has been accepted since the last image was loaded
    lastOp,     \* the handler that ran last: "idle" | "init" | "loadImage" | "loadFailed" |
                \* "updateView" | "setData" | "editMeta" | "exportTxt" (onExportTxt returned
                \* before it wrote) | "exportEquatorial" | "exportHorizontal"
    \* ---- SpecProjection: one call of imageXYtoEquatorial
    ppc,        \* "input" | "converted" | "idle"
    pMeta,      \* argument meta (geometry and orientation of a ProjectionMeta)
    pXPix,      \* argument xPix
    pYPix,      \* argument yPix
    pResult,    \* outcome of the call: returned angles or the exception raised
    \* ---- SpecExport: one run of App.onExportTxt
    xpc,        \* "input" | "exported" | "idle"
    xMeta,      \* dialog.meta(): the ProjectionMeta the export works with
    xDialog,    \* what the user chose: [accepted, mode, includeGHA, path]
    xRows,      \* self.model.getRows()
    xFile,      \* the file at the chosen path: [exists, lines]
    xResult,    \* what the run did: [opened, written, lst, message]
    \* ---- SpecDetect: the kernel size and the z-score of detectStars
    dpc,        \* "input" | "kernel" | "scored" | "idle"
    dBgKernel,  \* argument bgKernel
    dPixels,    \* per pixel: gray, background (medianBlur) and absResidual (blur of absdiff)
    dK,         \* local k
    dSigma,     \* local sigma, per pixel
    dZ,         \* local z, per pixel
    \* ---- SpecParse: one call of parseBlocks (seObjectParser.py)
    tpc,        \* "input" | "parsed" | "idle"
    tText,      \* argument text, as its lines
    tResult,    \* outcome of the call: returned roots or the exception raised
    \* ---- SpecFind: one call of findBlock (seObjectParser.py)
    qpc,        \* "input" | "found" | "idle"
    qRoots,     \* argument roots: a list of Block trees
    qType,      \* argument type
    qName,      \* argument name: None or a string
    qFound,     \* the returned Block, or None
    \* ---- SpecHalo: the candidate mask of detectStars (lines 110-139)
    hpc,        \* "input" | "cleaned" | "final" | "idle"
    hPixels,    \* per pixel: z, what the clean-up of cv2 leaves of it, whether a halo disc covers it
    hThreshold, \* argument snrThreshold
    hBlur,      \* argument blur
    hSuppress,  \* argument suppressHalo
    hSnrMask,   \* local snrMask after line 116, per pixel
    hMask,      \* local snrMask after line 139, per pixel
    \* ---- SpecComponents: the rows of detectStars (lines 141-159)
    cpc,        \* "input" | "returned" | "idle"
    cComponents,\* what cv2.connectedComponentsWithStats found, labels 1..num-1
    cMinArea,   \* argument minArea
    cMaxArea,   \* argument maxArea
    cRows       \* the rows returned

filterVars  == <<fpc, fRows, fMinSep, fMaxKeep, fKept, fKept2>>
matchVars   == <<mpc, mPrevPts, mNewPts, mMaxDist, mOut>>
sessionVars == <<bgr, meta, previewMode, prevPts, prevMeta, modelRows,
                 report, metaAccepted, lastOp>>
projVars    == <<ppc, pMeta, pXPix, pYPix, pResult>>
exportVars  == <<xpc, xMeta, xDialog, xRows, xFile, xResult>>
detectVars  == <<dpc, dBgKernel, dPixels, dK, dSigma, dZ>>
parseVars   == <<tpc, tText, tResult>>
findVars    == <<qpc, qRoots, qType, qName, qFound>>
haloVars    == <<hpc, hPixels, hThreshold, hBlur, hSuppress, hSnrMask, hMask>>
componentVars == <<cpc, cComponents, cMinArea, cMaxArea, cRows>>
laterVars   == <<parseVars, findVars, haloVars, componentVars>>
unitVars    == <<projVars, exportVars, detectVars, laterVars>>
vars        == <<fpc, fRows, fMinSep, fMaxKeep, fKept, fKept2,
                 mpc, mPrevPts, mNewPts, mMaxDist, mOut,
                 bgr, meta, previewMode, prevPts, prevMeta, modelRows,
                 report, metaAccepted, lastOp,
                 ppc, pMeta, pXPix, pYPix, pResult,
                 xpc, xMeta, xDialog, xRows, xFile, xResult,
                 dpc, dBgKernel, dPixels, dK, dSigma, dZ,
                 tpc, tText, tResult,
                 qpc, qRoots, qType, qName, qFound,
                 hpc, hPixels, hThreshold, hBlur, hSuppress, hSnrMask, hMask,
                 cpc, cComponents, cMinArea, cMaxArea, cRows>>

(***************************************************************************)
(* Bounds of the model.                                                    *)
(***************************************************************************)
MaxRows == 3        \* longest candidate list given to filterBySeparation
MaxCoord == 1       \* candidate centres of SpecFilter lie on the grid (0..MaxCoord)^2
MaxPts == 2         \* longest point list given to matchPoints
MaxMatchCoord == 1  \* points of SpecMatch lie on the grid (0..MaxMatchCoord)^2
MaxDetect == 2      \* most components one detection pass of the session returns
MaxLabels == 60     \* largest n for which labelsForN(n) is examined

SumIntensities == 1..2            \* summed intensities of candidates
MinSeparations == 0..2            \* minSeparation arguments of SpecFilter
MaxKeeps == (-1)..MaxRows         \* maxKeep arguments of SpecFilter
MaxDists == 0..1                  \* maxDist arguments of SpecMatch

\* Python's None for an optional value, and a value that is present
None == [has |-> FALSE, val |-> 0]
Some(v) == [has |-> TRUE, val |-> v]

SeqsUpTo(S, n) == UNION {[1..k -> S] : k \in 0..n}

Range(s) == {s[k] : k \in 1..Len(s)}

(***************************************************************************)
(* filterBySeparation (starDetection.py:64-85)                             *)
(***************************************************************************)
scoreRow(r) == r.sumIntensity

\* Mutants of the sort: ascending instead of descending (reverse=True dropped), and
\* descending with rows of equal score in reversed order (sorted(...)[::-1]).
insertAscending(sorted, row) ==
    LET p == Cardinality({k \in 1..Len(sorted) : scoreRow(sorted[k]) <= scoreRow(row)})
    IN  SubSeq(sorted, 1, p) \o <<row>> \o SubSeq(sorted, p + 1, Len(sorted))

RECURSIVE sortedAscending(_)
sortedAscending(rows) ==
    IF rows = <<>> THEN <<>>
    ELSE insertAscending(sortedAscending(SubSeq(rows, 1, Len(rows) - 1)), rows[Len(rows)])

sortedReversedTies(rows) ==
    LET asc == sortedAscending(rows)
    IN  [k \in 1..Len(asc) |-> asc[Len(asc) + 1 - k]]

\* sorted(rows,key=scoreRow,reverse=True) is stable: rows of equal score keep
\* their order.  insertByScore puts row behind every row of score >= its own.
insertByScore(sorted, row) ==
    LET p == Cardinality({k \in 1..Len(sorted) : scoreRow(sorted[k]) >= scoreRow(row)})
    IN  SubSeq(sorted, 1, p) \o <<row>> \o SubSeq(sorted, p + 1, Len(sorted))

RECURSIVE sortedByScore(_)
sortedByScore(rows) ==
    IF rows = <<>> THEN <<>>
    ELSE insertByScore(sortedByScore(SubSeq(rows, 1, Len(rows) - 1)), rows[Len(rows)])

\* Mutant of the rejection test: <= for <.
tooCloseInclusive(row, star, minSepSquared) ==
    LET xDist == row.centerX - star.centerX
        yDist == row.centerY - star.centerY
    IN  xDist * xDist + yDist * yDist <= minSepSquared

\* lines 74-75: the squared distance of row and star is below minSepSquared
tooClose(row, star, minSepSquared) ==
    LET xDist == row.centerX - star.centerX
        yDist == row.centerY - star.centerY
    IN  xDist * xDist + yDist * yDist < minSepSquared

\* lines 70-81: the loop over rowsSorted from position n on, kept so far
RECURSIVE keepLoop(_, _, _, _, _)
keepLoop(rowsSorted, n, kept, minSepSquared, maxKeep) ==
    IF n > Len(rowsSorted) THEN kept
    ELSE LET row == rowsSorted[n]
             ok  == \A s \in 1..Len(kept) : ~tooClose(row, kept[s], minSepSquared)
         IN  IF ok
             THEN LET kept2 == Append(kept, row)
                  IN  IF Len(kept2) >= maxKeep THEN kept2
                      ELSE keepLoop(rowsSorted, n + 1, kept2, minSepSquared, maxKeep)
             ELSE keepLoop(rowsSorted, n + 1, kept, minSepSquared, maxKeep)

\* Mutant: minSeparation compared with the squared distance without being squared.
filterUnsquared(rows, minSeparation, maxKeep) ==
    IF rows = <<>> THEN <<>>
    ELSE keepLoop(sortedByScore(rows), 1, <<>>, minSeparation, maxKeep)

filterBySeparation(rows, minSeparation, maxKeep) ==
    IF rows = <<>> THEN <<>>
    ELSE keepLoop(sortedByScore(rows), 1, <<>>, minSeparation * minSeparation, maxKeep)

(***************************************************************************)
(* SpecFilter                                                              *)
(***************************************************************************)
FilterCandidates ==
    [centerX : 0..MaxCoord, centerY : 0..MaxCoord, sumIntensity : SumIntensities]

FilterIdle ==
    /\ fpc = "idle" /\ fRows = <<>> /\ fMinSep = 0 /\ fMaxKeep = 0
    /\ fKept = <<>> /\ fKept2 = <<>>

MatchIdle ==
    /\ mpc = "idle" /\ mPrevPts = <<>> /\ mNewPts = <<>> /\ mMaxDist = 0
    /\ mOut = <<>>

SessionIdle ==
    /\ bgr = "None" /\ meta = None /\ previewMode = "single"
    /\ prevPts = <<>> /\ prevMeta = <<>> /\ modelRows = <<>>
    /\ report = "" /\ metaAccepted = FALSE
    /\ lastOp = "idle"

ProjectionIdle ==
    /\ ppc = "idle" /\ pMeta = <<>> /\ pXPix = 0 /\ pYPix = 0 /\ pResult = <<>>

ExportIdle ==
    /\ xpc = "idle" /\ xMeta = <<>> /\ xDialog = <<>> /\ xRows = <<>>
    /\ xFile = <<>> /\ xResult = <<>>

DetectIdle ==
    /\ dpc = "idle" /\ dBgKernel = 0 /\ dPixels = <<>> /\ dK = 0
    /\ dSigma = <<>> /\ dZ = <<>>

ParseIdle ==
    /\ tpc = "idle" /\ tText = <<>> /\ tResult = <<>>

FindIdle ==
    /\ qpc = "idle" /\ qRoots = <<>> /\ qType = "" /\ qName = <<>> /\ qFound = <<>>

HaloIdle ==
    /\ hpc = "idle" /\ hPixels = <<>> /\ hThreshold = 0 /\ hBlur = 0
    /\ hSuppress = FALSE /\ hSnrMask = <<>> /\ hMask = <<>>

ComponentsIdle ==
    /\ cpc = "idle" /\ cComponents = <<>> /\ cMinArea = 0 /\ cMaxArea = 0
    /\ cRows = <<>>

LaterIdle == ParseIdle /\ FindIdle /\ HaloIdle /\ ComponentsIdle

UnitsIdle == ProjectionIdle /\ ExportIdle /\ DetectIdle /\ LaterIdle

InitFilter ==
    /\ fpc = "input"
    /\ fRows \in SeqsUpTo(FilterCandidates, MaxRows)
    /\ fMinSep \in MinSeparations
    /\ fMaxKeep \in MaxKeeps
    /\ fKept = <<>>
    /\ fKept2 = <<>>
    /\ MatchIdle
    /\ SessionIdle
    /\ UnitsIdle

Filter ==
    /\ fpc = "input"
    /\ fKept' = filterBySeparation(fRows, fMinSep, fMaxKeep)
    /\ fpc' = "filtered"
    /\ UNCHANGED <<fRows, fMinSep, fMaxKeep, fKept2>>
    /\ UNCHANGED matchVars
    /\ UNCHANGED sessionVars
    /\ UNCHANGED unitVars

Refilter ==
    /\ fpc = "filtered"
    /\ fKept2' = filterBySeparation(fKept, fMinSep, fMaxKeep)
    /\ fpc' = "refiltered"
    /\ UNCHANGED <<fRows, fMinSep, fMaxKeep, fKept>>
    /\ UNCHANGED matchVars
    /\ UNCHANGED sessionVars
    /\ UNCHANGED unitVars

NextFilter == Filter \/ Refilter

SpecFilter == InitFilter /\ [][NextFilter]_vars

(***************************************************************************)
(* Claims about filterBySeparation, checked under SpecFilter.              *)
(***************************************************************************)
DistSq(a, b) ==
    (a.centerX - b.centerX) * (a.centerX - b.centerX)
    + (a.centerY - b.centerY) * (a.centerY - b.centerY)

Count(r, s) == Cardinality({k \in 1..Len(s) : s[k] = r})

MaxSum(s) == CHOOSE m \in {s[k].sumIntensity : k \in 1..Len(s)} :
                 \A k \in 1..Len(s) : s[k].sumIntensity <= m

\* C1: for every candidate list, every minSeparation >= 0 and every maxKeep, any
\* two candidates at different positions of the output of filterBySeparation have
\* Euclidean distance at least minSeparation (squared distance >= minSeparation^2).
C1_Separation ==
    fpc \in {"filtered", "refiltered"} =>
        \A a, b \in 1..Len(fKept) :
            a # b => DistSq(fKept[a], fKept[b]) >= fMinSep * fMinSep

\* a call that rejected a candidate and kept two, with a positive minSeparation
C1_Witness ==
    /\ fpc = "filtered"
    /\ fMinSep >= 1
    /\ Len(fKept) = 2
    /\ Len(fRows) = 3

\* C2: filterBySeparation is idempotent: applied to its own output with the same
\* minSeparation and maxKeep it returns the same candidates in the same order.
C2_Idempotent ==
    fpc = "refiltered" => fKept2 = fKept

\* a second call on an output of two candidates of equal score, the first call
\* having dropped a candidate
C2_Witness ==
    /\ fpc = "refiltered"
    /\ Len(fKept) = 2
    /\ fKept[1].sumIntensity = fKept[2].sumIntensity
    /\ fKept[1] # fKept[2]
    /\ Len(fRows) = 3
    /\ fKept2 = fKept

\* C3 (as claimed): for every input and every integer maxKeep >= 0, including 0,
\* the output of filterBySeparation holds at most maxKeep candidates.
C3_AtMostMaxKeep ==
    (fpc = "filtered" /\ fMaxKeep >= 0) => Len(fKept) <= fMaxKeep

\* C4: the output of filterBySeparation is a sub-list of its input (every candidate
\* occurs in it at most as often as in the input), is non-increasing in summed
\* intensity, and for a non-empty input holds a candidate of maximal summed
\* intensity.
C4_SublistBrightestFirst ==
    fpc = "filtered" =>
        /\ \A k \in 1..Len(fKept) : Count(fKept[k], fKept) <= Count(fKept[k], fRows)
        /\ \A k \in 1..(Len(fKept) - 1) :
               fKept[k].sumIntensity >= fKept[k + 1].sumIntensity
        /\ fRows # <<>> =>
               \E k \in 1..Len(fKept) : fKept[k].sumIntensity = MaxSum(fRows)

\* an input given dimmest-first of which two candidates of different score are kept
C4_Witness ==
    /\ fpc = "filtered"
    /\ Len(fRows) = 3
    /\ fRows[1].sumIntensity < fRows[3].sumIntensity
    /\ Len(fKept) = 2
    /\ fKept[1].sumIntensity > fKept[2].sumIntensity

\* C5: greedy maximality.  Whenever the output holds fewer than maxKeep candidates,
\* every input candidate that was not retained lies strictly closer than
\* minSeparation to a retained candidate whose summed intensity is at least its
\* own; and of two candidates of different score closer than minSeparation, given
\* alone, exactly the brighter one is kept.
C5_GreedyMaximal ==
    fpc = "filtered" =>
        /\ Len(fKept) < fMaxKeep =>
               \A i \in 1..Len(fRows) :
                   Count(fRows[i], fRows) > Count(fRows[i], fKept) =>
                       \E k \in 1..Len(fKept) :
                           /\ DistSq(fRows[i], fKept[k]) < fMinSep * fMinSep
                           /\ fKept[k].sumIntensity >= fRows[i].sumIntensity
        /\ ( /\ Len(fRows) = 2
             /\ DistSq(fRows[1], fRows[2]) < fMinSep * fMinSep
             /\ fRows[1].sumIntensity # fRows[2].sumIntensity )
           => fKept = << IF fRows[1].sumIntensity > fRows[2].sumIntensity
                         THEN fRows[1] ELSE fRows[2] >>

\* fewer than maxKeep kept, a candidate rejected, and two kept candidates exactly
\* minSeparation apart (the distance at which a candidate is still accepted)
C5_Witness ==
    /\ fpc = "filtered"
    /\ Len(fKept) < fMaxKeep
    /\ Len(fRows) = 3
    /\ Len(fKept) = 2
    /\ fMinSep >= 1
    /\ DistSq(fKept[1], fKept[2]) = fMinSep * fMinSep

(***************************************************************************)
(* matchPoints (starDetection.py:161-175).  A point is a pair <<x, y>>.    *)
(***************************************************************************)
pointDistSq(x, y, prevX, prevY) ==
    (x - prevX) * (x - prevX) + (y - prevY) * (y - prevY)

\* lines 166-171: the scan of prevPts from index i on; the result is <<best, bestd2>>
RECURSIVE scanPrev(_, _, _, _, _, _, _)
scanPrev(prevPts_, i, used, x, y, best, bestd2) ==
    IF i > Len(prevPts_) THEN <<best, bestd2>>
    ELSE IF i \in used THEN scanPrev(prevPts_, i + 1, used, x, y, best, bestd2)
    ELSE LET d2 == pointDistSq(x, y, prevPts_[i][1], prevPts_[i][2])
         IN  IF d2 < bestd2
             THEN scanPrev(prevPts_, i + 1, used, x, y, i, d2)
             ELSE scanPrev(prevPts_, i + 1, used, x, y, best, bestd2)

\* Mutant of lines 172-174: the matched index is not added to used.
usedAfterForgetful(used, best) == used

\* lines 172-173: used.add(best) when a best was found
usedAfter(used, best) == IF best # 0 THEN used \cup {best} ELSE used

\* lines 164-174: the loop over newPts from index j on
RECURSIVE matchLoop(_, _, _, _, _, _)
matchLoop(prevPts_, newPts, j, used, out, maxDist) ==
    IF j > Len(newPts) THEN out
    ELSE LET found == scanPrev(prevPts_, 1, used, newPts[j][1], newPts[j][2],
                               0, (maxDist + 1) * (maxDist + 1))
             best  == found[1]
         IN  matchLoop(prevPts_, newPts, j + 1, usedAfter(used, best),
                       [out EXCEPT ![j] = best], maxDist)

matchPoints(prevPts_, newPts, maxDist) ==
    matchLoop(prevPts_, newPts, 1, {}, [j \in 1..Len(newPts) |-> 0], maxDist)

(***************************************************************************)
(* SpecMatch                                                               *)
(***************************************************************************)
MatchPoints == (0..MaxMatchCoord) \X (0..MaxMatchCoord)

InitMatch ==
    /\ mpc = "input"
    /\ mPrevPts \in SeqsUpTo(MatchPoints, MaxPts)
    /\ mNewPts \in SeqsUpTo(MatchPoints, MaxPts)
    /\ mMaxDist \in MaxDists
    /\ mOut = <<>>
    /\ FilterIdle
    /\ SessionIdle
    /\ UnitsIdle

Match ==
    /\ mpc = "input"
    /\ mOut' = matchPoints(mPrevPts, mNewPts, mMaxDist)
    /\ mpc' = "matched"
    /\ UNCHANGED <<mPrevPts, mNewPts, mMaxDist>>
    /\ UNCHANGED filterVars
    /\ UNCHANGED sessionVars
    /\ UNCHANGED unitVars

NextMatch == Match

SpecMatch == InitMatch /\ [][NextMatch]_vars

(***************************************************************************)
(* Claims about matchPoints, checked under SpecMatch.                      *)
(***************************************************************************)
PtDistSq(p, q) == (p[1] - q[1]) * (p[1] - q[1]) + (p[2] - q[2]) * (p[2] - q[2])

\* previous indices taken by the current points before j
UsedBefore(out, j) == {out[k] : k \in 1..(j - 1)} \ {0}

\* C7 (as claimed): matchPoints matches a current point only to a previous point
\* within maxDist: whenever out[j] = i, the Euclidean distance of newPts[j] and
\* prevPts[i] is at most maxDist; a point with no unused previous point within
\* maxDist is left unmatched.
C7_WithinMaxDist ==
    mpc = "matched" =>
        \A j \in 1..Len(mNewPts) :
            /\ mOut[j] # 0 =>
                   PtDistSq(mNewPts[j], mPrevPts[mOut[j]]) <= mMaxDist * mMaxDist
            /\ (\A i \in 1..Len(mPrevPts) :
                    i \notin UsedBefore(mOut, j) =>
                        PtDistSq(mNewPts[j], mPrevPts[i]) > mMaxDist * mMaxDist)
               => mOut[j] = 0

\* C8: matchPoints is a greedy one-to-one assignment: taking the current points in
\* list order, each matched point gets a previous point not used by an earlier
\* current point and no farther than any other unused previous point, and no
\* previous index appears twice in the result.
C8_GreedyOneToOne ==
    mpc = "matched" =>
        /\ Len(mOut) = Len(mNewPts)
        /\ \A j \in 1..Len(mOut) :
               mOut[j] # 0 =>
                   /\ mOut[j] \in 1..Len(mPrevPts)
                   /\ mOut[j] \notin UsedBefore(mOut, j)
                   /\ \A i \in 1..Len(mPrevPts) :
                          i \notin UsedBefore(mOut, j) =>
                              PtDistSq(mNewPts[j], mPrevPts[mOut[j]])
                                  <= PtDistSq(mNewPts[j], mPrevPts[i])
        /\ \A j, k \in 1..Len(mOut) :
               (j # k /\ mOut[j] # 0) => mOut[j] # mOut[k]

\* two current points matched, the second to a previous point that is farther from
\* it than the one the first current point took
C8_Witness ==
    /\ mpc = "matched"
    /\ Len(mNewPts) = 2
    /\ mOut[1] # 0
    /\ mOut[2] # 0
    /\ PtDistSq(mNewPts[2], mPrevPts[mOut[1]]) < PtDistSq(mNewPts[2], mPrevPts[mOut[2]])

(***************************************************************************)
(* labelsForN (starDetection.py:34-44).  A label is the string f"{ch}{k}". *)
(***************************************************************************)
letters ==
    << "A", "B", "C", "D", "E", "F", "G", "H", "I", "J", "K", "L", "M",
       "N", "O", "P", "Q", "R", "S", "T", "U", "V", "W", "X", "Y", "Z" >>

\* lines 39-42: the for loop over letters from letter c on
RECURSIVE forLetters(_, _, _, _)
forLetters(labels, c, k, n) ==
    IF c > Len(letters) \/ Len(labels) >= n THEN labels
    ELSE forLetters(Append(labels, letters[c] \o ToString(k)), c + 1, k, n)

\* Mutant of line 43: k is not advanced after a pass over the letters.
RECURSIVE whileLabelsStuck(_, _, _)
whileLabelsStuck(labels, k, n) ==
    IF Len(labels) < n THEN whileLabelsStuck(forLetters(labels, 1, k, n), k, n)
    ELSE labels

\* lines 38-43: the while loop
RECURSIVE whileLabels(_, _, _)
whileLabels(labels, k, n) ==
    IF Len(labels) < n THEN whileLabels(forLetters(labels, 1, k, n), k + 1, n)
    ELSE labels

labelsForN(n) == whileLabels(<<>>, 1, n)

(***************************************************************************)
(* The session: App.loadImage, App.updateView, DetectionModel.setData with *)
(* App.onModelChanged.                                                     *)
(***************************************************************************)
\* Pixel centres the detector reports in the session: two 10 px apart (closer than
\* the match distance, farther than the smallest minSeparation) and one far away.
SessionPoints == { <<0, 0>>, <<10, 0>>, <<0, 30>> }

\* values of the sliders read by updateView (ranges 8..500 and 10..500)
MinSeparationValues == {8, 20}
MaxStarsValues == {10}

\* maxDist=12.0 of the call in updateView
matchMaxDist == 12

\* texts the user types into the name column
TypedNames == {"", "Vega", "B1"}

\* summed intensities of the components detected in the session (filterBySeparation
\* keeps the order of rows that detectStars has sorted, so the values play no part)
SessionIntensities == {1}

\* detectStars returns its rows sorted descending by (sumIntensity, area); which
\* components an image and the slider values give is left open.
DetectOutputs ==
    { rows \in SeqsUpTo([centerX : {p[1] : p \in SessionPoints},
                         centerY : {p[2] : p \in SessionPoints},
                         sumIntensity : SessionIntensities], MaxDetect) :
        /\ \A k \in 1..Len(rows) : <<rows[k].centerX, rows[k].centerY>> \in SessionPoints
        /\ \A k \in 1..(Len(rows) - 1) : rows[k].sumIntensity >= rows[k + 1].sumIntensity }

NoName == [has |-> FALSE, name |-> ""]

\* lines 539-545: carriedNames[j]
carriedName(mapping, prevMeta_, j) ==
    LET i == mapping[j]
    IN  IF i # 0 /\ i <= Len(prevMeta_)
        THEN LET prev == prevMeta_[i]
                 wasCustom == prev.custom
             IN  IF wasCustom THEN [has |-> TRUE, name |-> prev.name] ELSE NoName
        ELSE NoName

\* Python's truth value of carriedNames[j]: neither None nor the empty string
truthy(c) == c.has /\ c.name # ""

\* Mutant of line 552: the carried name is never used.
nameForNever(carried, newID) == newID

\* line 552: name = carriedNames[j] if carriedNames[j] else newID
nameFor(carried, newID) == IF truthy(carried) THEN carried.name ELSE newID

\* lines 536-556: outputRows from the filtered rows and the previous frame
outputRowsOf(rows, prevPts_, prevMeta_) ==
    LET pts     == [j \in 1..Len(rows) |-> <<rows[j].centerX, rows[j].centerY>>]
        mapping == matchPoints(prevPts_, pts, matchMaxDist)
        ids     == labelsForN(Len(rows))
    IN  [j \in 1..Len(rows) |->
            [centerX |-> rows[j].centerX, centerY |-> rows[j].centerY,
             sumIntensity |-> rows[j].sumIntensity,
             id |-> ids[j],
             name |-> nameFor(carriedName(mapping, prevMeta_, j), ids[j])]]

\* lines 558-559
ptsOf(outputRows) ==
    [j \in 1..Len(outputRows) |-> <<outputRows[j].centerX, outputRows[j].centerY>>]

\* Mutant of the meta records: custom is never set.
metaNeverCustom(outputRows) ==
    [j \in 1..Len(outputRows) |->
        [id |-> outputRows[j].id, name |-> outputRows[j].name, custom |-> FALSE]]

metaOf(outputRows) ==
    [j \in 1..Len(outputRows) |->
        [id |-> outputRows[j].id, name |-> outputRows[j].name,
         custom |-> (outputRows[j].name # outputRows[j].id)]]

\* updateView (lines 516-563) for the rows detectStars returned, from the given
\* previous frame: the new values of prevPts, prevMeta and model.rows
updateViewFrom(detected, minSeparation, maxKeep, prevPts_, prevMeta_) ==
    \E outputRows \in { outputRowsOf(filterBySeparation(detected, minSeparation, maxKeep),
                                      prevPts_, prevMeta_) } :
        /\ prevPts' = ptsOf(outputRows)
        /\ prevMeta' = metaOf(outputRows)
        /\ modelRows' = outputRows

(***************************************************************************)
(* Arithmetic of the projection (lines 179-246).  The code computes in     *)
(* floats; here a number is an exact fraction <<n, d>> in lowest terms     *)
(* with d > 0, and an angle is a whole number of degrees.  sin and cos are *)
(* known at the multiples of 90 degrees, asin and atan2 at the arguments   *)
(* whose result is a multiple of 30 resp. 45 degrees; elsewhere the result *)
(* of asin and atan2 is an angle that is not a whole number of degrees     *)
(* (whole = FALSE).  Rounding of the floats is not modelled.               *)
(***************************************************************************)
RECURSIVE gcd(_, _)
gcd(a, b) == IF b = 0 THEN a ELSE gcd(b, a % b)

abs(x) == IF x < 0 THEN -x ELSE x

frac(n, d) ==
    LET g == gcd(abs(n), abs(d))
        s == IF d < 0 THEN -1 ELSE 1
    IN  <<(s * n) \div g, (s * d) \div g>>

num(i) == <<i, 1>>
add(p, q) == frac(p[1] * q[2] + q[1] * p[2], p[2] * q[2])
sub(p, q) == frac(p[1] * q[2] - q[1] * p[2], p[2] * q[2])
mul(p, q) == frac(p[1] * q[1], p[2] * q[2])
div(p, q) == frac(p[1] * q[2], p[2] * q[1])
less(p, q) == p[1] * q[2] < q[1] * p[2]

\* math.sin(math.radians(deg)) and math.cos(math.radians(deg))
sinDeg(deg) ==
    CASE deg % 360 = 0   -> num(0)
      [] deg % 360 = 90  -> num(1)
      [] deg % 360 = 180 -> num(0)
      [] deg % 360 = 270 -> num(-1)

cosDeg(deg) ==
    CASE deg % 360 = 0   -> num(1)
      [] deg % 360 = 90  -> num(0)
      [] deg % 360 = 180 -> num(-1)
      [] deg % 360 = 270 -> num(0)

Degrees(deg) == [whole |-> TRUE, deg |-> deg]
NotWhole == [whole |-> FALSE, deg |-> 0]

\* math.degrees(math.asin(max(-1.0,min(1.0,q))))
asinDeg(q) ==
    LET c == IF less(num(1), q) THEN num(1)
             ELSE IF less(q, num(-1)) THEN num(-1) ELSE q
    IN  CASE c = <<1, 1>>  -> Degrees(90)
          [] c = <<1, 2>>  -> Degrees(30)
          [] c = <<0, 1>>  -> Degrees(0)
          [] c = <<-1, 2>> -> Degrees(-30)
          [] c = <<-1, 1>> -> Degrees(-90)
          [] OTHER         -> NotWhole

\* math.degrees(math.atan2(y,x))
atan2Deg(y, x) ==
    CASE y[1] = 0 /\ x[1] >= 0            -> Degrees(0)
      [] y[1] = 0 /\ x[1] < 0             -> Degrees(180)
      [] x[1] = 0 /\ y[1] > 0             -> Degrees(90)
      [] x[1] = 0 /\ y[1] < 0             -> Degrees(-90)
      [] x = y /\ x[1] > 0                -> Degrees(45)
      [] x = y /\ x[1] < 0                -> Degrees(-135)
      [] x = sub(num(0), y) /\ x[1] > 0 -> Degrees(-45)
      [] x = sub(num(0), y) /\ x[1] < 0 -> Degrees(135)
      [] OTHER                            -> NotWhole

(***************************************************************************)
(* Projection: inverseStereoToXYZ, ProjectionMeta, imageXYtoEquatorial.    *)
(***************************************************************************)
inverseStereoHalved(normX, normY) ==
    LET radiusSquared == add(mul(normX, normX), mul(normY, normY))
        denom == add(num(1), radiusSquared)
    IN  <<div(normX, denom), div(normY, denom),
          div(sub(num(1), radiusSquared), denom)>>

inverseStereoFarPole(normX, normY) ==
    LET radiusSquared == add(mul(normX, normX), mul(normY, normY))
        denom == add(num(1), radiusSquared)
    IN  <<div(mul(num(2), normX), denom), div(mul(num(2), normY), denom),
          div(sub(radiusSquared, num(1)), denom)>>

inverseStereoToXYZ(normX, normY) ==
    LET radiusSquared == add(mul(normX, normX), mul(normY, normY))
        denom == add(num(1), radiusSquared)
    IN  <<div(mul(num(2), normX), denom), div(mul(num(2), normY), denom),
          div(sub(num(1), radiusSquared), denom)>>

\* the dataclass, with the defaults of its last six fields
ProjectionMeta(width, height, centerX, centerY, radius) ==
    [width |-> width, height |-> height,
     centerX |-> centerX, centerY |-> centerY, radius |-> radius,
     rightAscensionNaught |-> 0, declinationNaught |-> 90, positionAngle |-> 0,
     greenwichSiderealTime |-> None, observerLatitude |-> None,
     observerLongitude |-> None]

NoXYZ == <<num(0), num(0), num(0)>>

\* lines 217-220: rotation about the z axis by -positionAngle
rotateByPositionAngle(xyz, positionAngle) ==
    <<sub(mul(xyz[1], cosDeg(positionAngle)), mul(xyz[2], sinDeg(positionAngle))),
      add(mul(xyz[1], sinDeg(positionAngle)), mul(xyz[2], cosDeg(positionAngle))),
      xyz[3]>>

\* lines 221-225: tilt about the x axis by 90 - declinationNaught
tiltByDeclination(radiusXYZ, tilt) ==
    <<radiusXYZ[1],
      sub(mul(radiusXYZ[2], cosDeg(tilt)), mul(radiusXYZ[3], sinDeg(tilt))),
      add(mul(radiusXYZ[2], sinDeg(tilt)), mul(radiusXYZ[3], cosDeg(tilt)))>>

\* lines 226-229: rotation about the z axis by rightAscensionNaught
rotateByRightAscension(rotated, rightAscensionNaught) ==
    <<sub(mul(rotated[1], cosDeg(rightAscensionNaught)),
          mul(rotated[2], sinDeg(rightAscensionNaught))),
      add(mul(rotated[1], sinDeg(rightAscensionNaught)),
          mul(rotated[2], cosDeg(rightAscensionNaught))),
      rotated[3]>>

\* lines 231-232: if rightAscension < 0: rightAscension += 360.0
addTurnIfNegative(rightAscension) ==
    IF rightAscension.whole /\ rightAscension.deg < 0
    THEN Degrees(rightAscension.deg + 360)
    ELSE rightAscension

\* lines 230-234; xyz is the point of line 216
anglesOf(xyz, out) ==
    [raised |-> "", xyz |-> xyz,
     rightAscension |-> addTurnIfNegative(atan2Deg(out[2], out[1])),
     declination |-> asinDeg(out[3])]

\* lines 217-234
rotateAndConvert(meta_, xyz) ==
    anglesOf(xyz,
        rotateByRightAscension(
            tiltByDeclination(
                rotateByPositionAngle(xyz, -meta_.positionAngle),
                90 - meta_.declinationNaught),
            meta_.rightAscensionNaught))

imageXYtoEquatorial(meta_, xPix, yPix) ==
    IF meta_.radius = 0
    THEN [raised |-> "ZeroDivisionError", xyz |-> NoXYZ,
          rightAscension |-> NotWhole, declination |-> NotWhole]
    ELSE rotateAndConvert(meta_,
             inverseStereoToXYZ(frac(xPix - meta_.centerX, meta_.radius),
                                frac(meta_.centerY - yPix, meta_.radius)))

(***************************************************************************)
(* SpecProjection: imageXYtoEquatorial applied to one pixel under a        *)
(* bounded ProjectionMeta whose orientation angles are multiples of 90.    *)
(***************************************************************************)
MaxPixel == 4       \* the image is MaxPixel wide and high; pixels lie on (0..MaxPixel)^2
MaxCenter == 2      \* disc centres lie on (0..MaxCenter)^2
MaxRadius == 5      \* largest disc radius

RightAscensions == {0, 90, 180, 270, 360}
Declinations == {-90, 0, 90}
PositionAngles == {-90, 0, 90}

ProjectionMetas ==
    { [ProjectionMeta(MaxPixel, MaxPixel, cx, cy, r) EXCEPT
          !.rightAscensionNaught = o[1], !.declinationNaught = o[2],
          !.positionAngle = o[3]] :
      cx \in 0..MaxCenter, cy \in 0..MaxCenter, r \in 0..MaxRadius,
      o \in RightAscensions \X Declinations \X PositionAngles }

InitProjection ==
    /\ ppc = "input"
    /\ pMeta \in ProjectionMetas
    /\ pXPix \in 0..MaxPixel
    /\ pYPix \in 0..MaxPixel
    /\ pResult = <<>>
    /\ FilterIdle /\ MatchIdle /\ SessionIdle /\ ExportIdle /\ DetectIdle /\ LaterIdle

Convert ==
    /\ ppc = "input"
    /\ pResult' = imageXYtoEquatorial(pMeta, pXPix, pYPix)
    /\ ppc' = "converted"
    /\ UNCHANGED <<pMeta, pXPix, pYPix>>
    /\ UNCHANGED <<filterVars, matchVars, sessionVars, exportVars, detectVars, laterVars>>

NextProjection == Convert

SpecProjection == InitProjection /\ [][NextProjection]_vars

(***************************************************************************)
(* Claims about the projection (SpecProjection).                           *)
(***************************************************************************)
AtCentre == pXPix = pMeta.centerX /\ pYPix = pMeta.centerY

\* squared distance of the pixel from the disc centre
CentreDistSq ==
    (pXPix - pMeta.centerX) * (pXPix - pMeta.centerX)
    + (pYPix - pMeta.centerY) * (pYPix - pMeta.centerY)

Converted == ppc = "converted" /\ pMeta.radius # 0

\* C14: the disc-centre pixel converts to the orientation stored in the
\* meta: declination = declinationNaught and, when declinationNaught is not
\* +/-90, right ascension = rightAscensionNaught modulo 360.
C14_CentreIsReference ==
    (Converted /\ AtCentre) =>
        /\ pResult.declination = Degrees(pMeta.declinationNaught)
        /\ (pMeta.declinationNaught \notin {-90, 90} =>
                pResult.rightAscension = Degrees(pMeta.rightAscensionNaught % 360))

ZeroRotation ==
    /\ pMeta.positionAngle = 0
    /\ pMeta.declinationNaught = 90
    /\ pMeta.rightAscensionNaught = 0

\* C15: with zero rotation the disc-centre pixel has declination 90 and every
\* pixel at distance exactly radius from the centre has declination 0,
\* whatever its direction from the centre.
C15_ZeroRotation ==
    (Converted /\ ZeroRotation) =>
        /\ (AtCentre => pResult.declination = Degrees(90))
        /\ (CentreDistSq = pMeta.radius * pMeta.radius =>
                pResult.declination = Degrees(0))

\* a pixel on the disc edge that lies on neither axis through the centre,
\* converted to declination 0 under zero rotation
C15_Witness ==
    /\ Converted /\ ZeroRotation
    /\ CentreDistSq = pMeta.radius * pMeta.radius
    /\ pXPix # pMeta.centerX /\ pYPix # pMeta.centerY
    /\ pResult.declination = Degrees(0)

square(p) == mul(p, p)

OnUnitSphere(xyz) ==
    add(add(square(xyz[1]), square(xyz[2])), square(xyz[3])) = num(1)

\* C16: inverseStereoToXYZ maps every (u,v) to the unit sphere,
\* X^2+Y^2+Z^2 = 1, i.e. (2u)^2+(2v)^2+(1-r^2)^2 = (1+r^2)^2; (0,0) goes to
\* (0,0,1); Z = 0 exactly when u^2+v^2 = 1; Z < 0 when u^2+v^2 > 1.
C16_UnitSphere ==
    Converted =>
        LET u == frac(pXPix - pMeta.centerX, pMeta.radius)
            v == frac(pMeta.centerY - pYPix, pMeta.radius)
            rr == add(square(u), square(v))
            xyz == pResult.xyz
        IN  /\ OnUnitSphere(xyz)
            /\ add(add(square(mul(num(2), u)), square(mul(num(2), v))),
                   square(sub(num(1), rr))) = square(add(num(1), rr))
            /\ (rr = num(0) => xyz = <<num(0), num(0), num(1)>>)
            /\ (xyz[3] = num(0) <=> rr = num(1))
            /\ (less(num(1), rr) => less(xyz[3], num(0)))

\* a pixel outside the disc, off both axes, mapped to the lower hemisphere
C16_Witness ==
    /\ Converted
    /\ CentreDistSq > pMeta.radius * pMeta.radius
    /\ pXPix # pMeta.centerX /\ pYPix # pMeta.centerY
    /\ less(pResult.xyz[3], num(0))
    /\ OnUnitSphere(pResult.xyz)

\* the disc geometry disagrees with the image: no disc, or a disc wider
\* than the image
InconsistentGeometry ==
    \/ pMeta.radius = 0
    \/ pMeta.radius > pMeta.width
    \/ pMeta.radius > pMeta.height

\* C17: for a ProjectionMeta whose disc geometry is inconsistent with the
\* image (radius larger than the image, or radius zero) the converter
\* neither raises nor returns angles: it reports a failure to the caller.
C17_ReportsBadGeometry ==
    (ppc = "converted" /\ InconsistentGeometry) =>
        /\ pResult.raised # "ZeroDivisionError"  \* it does not raise
        /\ pResult.raised # ""                   \* it does not return angles

(***************************************************************************)
(* Catalog export: equatorialToHorizontal and App.onExportTxt.             *)
(***************************************************************************)
\* C's fmod: the result has the sign of the dividend
fmod360(x) == IF x < 0 THEN -((-x) % 360) ELSE x % 360

\* Python's x % 360.0: the result has the sign of the divisor
mod360(x) == x % 360

hourAngleOf(localSiderealTime, rightAscension) ==
    mod360(localSiderealTime - rightAscension)

equatorialToHorizontal(rightAscension, declination, latitude, longitude, localSiderealTime) ==
    IF ~rightAscension.whole \/ ~declination.whole
       \/ rightAscension.deg % 90 # 0 \/ declination.deg % 90 # 0
    THEN <<NotWhole, NotWhole>>
    ELSE
    LET hourAngle == hourAngleOf(localSiderealTime, rightAscension.deg)
        dec == declination.deg
        sinAltitude == add(mul(sinDeg(dec), sinDeg(latitude)),
                           mul(mul(cosDeg(dec), cosDeg(latitude)), cosDeg(hourAngle)))
        altitude == asinDeg(sinAltitude)
        y == mul(sub(num(0), sinDeg(hourAngle)), cosDeg(dec))
        x == sub(mul(sinDeg(dec), cosDeg(latitude)),
                 mul(mul(cosDeg(dec), sinDeg(latitude)), cosDeg(hourAngle)))
        azimuth == atan2Deg(y, x)
    IN  <<IF azimuth.whole THEN Degrees(mod360(azimuth.deg + 360)) ELSE azimuth,
          altitude>>

\* f"{x:.3f}" and f"{a:.6f}"
fmt3(x) == ToString(x) \o ".000"
fmt6(angle) == IF angle.whole THEN ToString(angle.deg) \o ".000000" ELSE "not whole"

\* meta.observerLongitude or 0.0
orZero(optional) == IF optional.has /\ optional.val # 0 THEN optional.val ELSE 0

headerOf(mode, includeGHA) ==
    IF mode = "equatorial"
    THEN <<"id", "name", "xpix", "ypix", "ra_deg", "dec_deg">>
         \o (IF includeGHA THEN <<"gha_deg">> ELSE <<>>)
    ELSE <<"id", "name", "xpix", "ypix", "az_deg", "alt_deg">>

ghaOf(meta_, rightAscension) ==
    IF rightAscension.whole
    THEN Degrees(mod360(meta_.greenwichSiderealTime.val - rightAscension.deg))
    ELSE NotWhole

\* the line written for one row in equatorial mode
equatorialLine(meta_, includeGHA, row, eq) ==
    LET line == <<row.id, row.name, fmt3(row.centerX), fmt3(row.centerY),
                  fmt6(eq.rightAscension), fmt6(eq.declination)>>
    IN  IF includeGHA /\ meta_.greenwichSiderealTime.has
        THEN Append(line, fmt6(ghaOf(meta_, eq.rightAscension)))
        ELSE line

\* the line written for one row in horizontal mode
horizontalLine(meta_, lst, row, eq) ==
    LET azAlt == equatorialToHorizontal(eq.rightAscension, eq.declination,
                     meta_.observerLatitude.val, orZero(meta_.observerLongitude), lst)
    IN  <<row.id, row.name, fmt3(row.centerX), fmt3(row.centerY),
          fmt6(azAlt[1]), fmt6(azAlt[2])>>

\* the for loop over the rows: the lines written, and the exception that
\* ended the loop, if any
RECURSIVE writeRows(_, _, _, _, _, _, _)
writeRows(meta_, mode, includeGHA, lst, rows, i, written) ==
    IF i > Len(rows) THEN [written |-> written, raised |-> ""]
    ELSE LET eq == imageXYtoEquatorial(meta_, rows[i].centerX, rows[i].centerY)
         IN  IF eq.raised # "" THEN [written |-> written, raised |-> eq.raised]
             ELSE writeRows(meta_, mode, includeGHA, lst, rows, i + 1,
                     Append(written,
                            IF mode = "equatorial"
                            THEN equatorialLine(meta_, includeGHA, rows[i], eq)
                            ELSE horizontalLine(meta_, lst, rows[i], eq)))

LatitudeRequired == "Observer latitude is required."
SiderealRequired == "Provide LST (or GST and observer longitude)."
Saved == "Saved"

\* the handler returned before it opened the file
returnedEarly(file) ==
    [file |-> file,
     result |-> [opened |-> FALSE, written |-> <<>>, lst |-> None,
                 message |-> "", raised |-> ""]]

\* the handler left the with block: by a warning and return (no rows), by an
\* exception of the loop, or at its end (followed by the information box)
closed(lines, lst, message, raised) ==
    [file |-> [exists |-> TRUE, lines |-> lines],
     result |-> [opened |-> TRUE, written |-> lines, lst |-> lst,
                 message |-> message, raised |-> raised]]

\* lines 701-704
lstOf(meta_) ==
    IF meta_.greenwichSiderealTime.has
    THEN mod360(meta_.greenwichSiderealTime.val + orZero(meta_.observerLongitude))
    ELSE 0

exportLoop(meta_, mode, includeGHA, lst, rows) ==
    LET header == headerOf(mode, includeGHA)
        loop == writeRows(meta_, mode, includeGHA,
                          IF lst.has THEN lst.val ELSE 0, rows, 1, <<>>)
    IN  closed(<<header>> \o loop.written, lst,
               IF loop.raised = "" THEN Saved ELSE "", loop.raised)

latitudeUnchecked(meta_, dialog, rows) ==
    IF dialog.mode = "equatorial"
    THEN exportLoop(meta_, dialog.mode, dialog.includeGHA, None, rows)
    ELSE IF ~meta_.greenwichSiderealTime.has /\ ~meta_.observerLongitude.has
         THEN closed(<<>>, None, SiderealRequired, "")
         ELSE exportLoop(meta_, dialog.mode, dialog.includeGHA,
                         Some(lstOf(meta_)), rows)

\* the body of the with block (lines 678-713)
writeCatalog(meta_, dialog, rows) ==
    IF dialog.mode = "equatorial"
    THEN exportLoop(meta_, dialog.mode, dialog.includeGHA, None, rows)
    ELSE IF ~meta_.observerLatitude.has
         THEN closed(<<>>, None, LatitudeRequired, "")
         ELSE IF ~meta_.greenwichSiderealTime.has /\ ~meta_.observerLongitude.has
              THEN closed(<<>>, None, SiderealRequired, "")
              ELSE exportLoop(meta_, dialog.mode, dialog.includeGHA,
                              Some(lstOf(meta_)), rows)

onExportTxt(meta_, dialog, rows, file) ==
    IF ~dialog.loaded \/ ~dialog.accepted \/ dialog.path = ""
    THEN returnedEarly(file)
    ELSE writeCatalog(meta_, dialog, rows)

(***************************************************************************)
(* SpecExport: one run of App.onExportTxt on a bounded table, under every  *)
(* combination of present and absent observer fields of the ProjectionMeta.*)
(* The disc is the default one of loadImage for a 4 x 4 image (centre      *)
(* (2,2), radius 2) or has radius 0; the orientation is the default, and   *)
(* the rows lie at the centre and on the edge of the disc.                 *)
(***************************************************************************)
MaxExportRows == 2  \* longest table exported

ExportPoints == {<<2, 2>>, <<4, 2>>, <<2, 0>>}
ExportRadii == {0, 2}
SiderealTimes == {None, Some(-90), Some(0), Some(270)}
Latitudes == {None, Some(0), Some(90)}
Longitudes == {None, Some(-90), Some(0), Some(90)}

ExportMetas ==
    { [ProjectionMeta(4, 4, 2, 2, r) EXCEPT
          !.greenwichSiderealTime = o[1], !.observerLatitude = o[2],
          !.observerLongitude = o[3]] :
      r \in ExportRadii, o \in SiderealTimes \X Latitudes \X Longitudes }

tableOf(pts, labels) ==
    [i \in 1..Len(pts) |->
        [id |-> labels[i], name |-> labels[i],
         centerX |-> pts[i][1], centerY |-> pts[i][2]]]

ExportTables ==
    { tableOf(pts, labelsForN(Len(pts))) : pts \in SeqsUpTo(ExportPoints, MaxExportRows) }

ExportDialogs ==
    [loaded : BOOLEAN, accepted : BOOLEAN, mode : {"equatorial", "horizontal"},
     includeGHA : BOOLEAN, path : {"", "catalog.txt"}]

ExportFiles == {[exists |-> FALSE, lines |-> <<>>],
                [exists |-> TRUE, lines |-> <<<<"old">>>>]}

InitExport ==
    /\ xpc = "input"
    /\ xMeta \in ExportMetas
    /\ xDialog \in ExportDialogs
    /\ xRows \in ExportTables
    /\ xFile \in ExportFiles
    /\ xResult = <<>>
    /\ FilterIdle /\ MatchIdle /\ SessionIdle /\ ProjectionIdle /\ DetectIdle /\ LaterIdle

ExportTxt ==
    /\ xpc = "input"
    /\ \E out \in { onExportTxt(xMeta, xDialog, xRows, xFile) } :
          /\ xFile' = out.file
          /\ xResult' = out.result
    /\ xpc' = "exported"
    /\ UNCHANGED <<xMeta, xDialog, xRows>>
    /\ UNCHANGED <<filterVars, matchVars, sessionVars, projVars, detectVars, laterVars>>

NextExport == ExportTxt

SpecExport == InitExport /\ [][NextExport]_vars

(***************************************************************************)
(* Claims about the catalog export (SpecExport).                           *)
(***************************************************************************)
\* the run got past the dialogs and opened the file
Exported ==
    /\ xpc = "exported"
    /\ xDialog.loaded /\ xDialog.accepted /\ xDialog.path # ""

Completed == Exported /\ xResult.message = Saved

\* C11: a horizontal export with the observer latitude absent fails for
\* every table and every sidereal time and longitude: the condition is
\* reported, no header or row is written, no success is reported.
C11_LatitudeRequired ==
    (Exported /\ xDialog.mode = "horizontal" /\ ~xMeta.observerLatitude.has) =>
        /\ xResult.message = LatitudeRequired
        /\ xResult.written = <<>>
        /\ xFile.lines = <<>>
        /\ xResult.raised = ""

\* the latitude is absent while sidereal time and longitude are present and
\* the table has rows
C11_Witness ==
    /\ Exported /\ xDialog.mode = "horizontal"
    /\ ~xMeta.observerLatitude.has
    /\ xMeta.greenwichSiderealTime.has /\ xMeta.observerLongitude.has
    /\ Len(xRows) = MaxExportRows
    /\ xResult.message = LatitudeRequired

C13_HeaderAndRows ==
    Completed =>
        /\ Len(xFile.lines) = Len(xRows) + 1
        /\ \A i \in 1..Len(xRows) :
              /\ xFile.lines[i + 1][1] = xRows[i].id
              /\ Len(xFile.lines[i + 1]) = Len(xFile.lines[1])
        /\ (xDialog.mode = "equatorial" /\ xDialog.includeGHA) =>
              /\ Len(xFile.lines[1]) = 7
              /\ xFile.lines[1][7] = "gha_deg"

\* g is x reduced modulo 360 into [0, 360)
Reduced(g, x) == g \in 0..359 /\ \E k \in -3..3 : g = x + 360 * k

\* the right ascension computed for table row i
RowRA(i) == imageXYtoEquatorial(xMeta, xRows[i].centerX, xRows[i].centerY).rightAscension

RECURSIVE bitOr(_, _)
bitOr(a, b) ==
    IF a = 0 THEN b
    ELSE IF b = 0 THEN a
    ELSE IF a = -1 \/ b = -1 THEN -1
    ELSE (IF a % 2 = 1 \/ b % 2 = 1 THEN 1 ELSE 0) + 2 * bitOr(a \div 2, b \div 2)

kernelUnforced(bgKernel) == IF bgKernel < 3 THEN 3 ELSE bgKernel

\* lines 101-103
kernelSize(bgKernel) ==
    LET k == bitOr(bgKernel, 1)
    IN  IF k < 3 THEN 3 ELSE k

sigmaUnfloored(absResidual) == absResidual

\* np.maximum(absResidual.astype(np.float32),1.0), per pixel
sigmaOf(absResidual) == IF absResidual > 1 THEN absResidual ELSE 1

\* float32 division of numpy: x/0 is inf, -inf or nan, written <<1, 0>>,
\* <<-1, 0>> and <<0, 0>>
floatDiv(n, d) ==
    IF d = 0 THEN <<IF n > 0 THEN 1 ELSE IF n < 0 THEN -1 ELSE 0, 0>>
    ELSE frac(n, d)

\* line 108, per pixel
zScore(pixel, sigma) == floatDiv(pixel.gray - pixel.background, sigma)

(***************************************************************************)
(* SpecDetect: the start of one call of detectStars.                       *)
(***************************************************************************)
MaxBgKernel == 8     \* bgKernel ranges over -MaxBgKernel..MaxBgKernel and the slider's values
MaxImagePixels == 2  \* most pixels of an image

SliderBgKernels == {31, 80, 81, 121}
BgKernels == ((-MaxBgKernel)..MaxBgKernel) \cup SliderBgKernels
PixelLevels == {0, 1, 255}
ImagePixels == [gray : PixelLevels, background : PixelLevels, absResidual : PixelLevels]
Images == SeqsUpTo(ImagePixels, MaxImagePixels) \ {<<>>}

InitDetect ==
    /\ dpc = "input"
    /\ dBgKernel \in BgKernels
    /\ dPixels \in Images
    /\ dK = 0
    /\ dSigma = <<>>
    /\ dZ = <<>>
    /\ FilterIdle /\ MatchIdle /\ SessionIdle /\ ProjectionIdle /\ ExportIdle /\ LaterIdle

ForceKernel ==
    /\ dpc = "input"
    /\ dK' = kernelSize(dBgKernel)
    /\ dpc' = "kernel"
    /\ UNCHANGED <<dBgKernel, dPixels, dSigma, dZ>>
    /\ UNCHANGED <<filterVars, matchVars, sessionVars, projVars, exportVars, laterVars>>

Score ==
    /\ dpc = "kernel"
    /\ dSigma' = [i \in 1..Len(dPixels) |-> sigmaOf(dPixels[i].absResidual)]
    /\ dZ' = [i \in 1..Len(dPixels) |-> zScore(dPixels[i], dSigma'[i])]
    /\ dpc' = "scored"
    /\ UNCHANGED <<dBgKernel, dPixels, dK>>
    /\ UNCHANGED <<filterVars, matchVars, sessionVars, projVars, exportVars, laterVars>>

NextDetect == ForceKernel \/ Score

SpecDetect == InitDetect /\ [][NextDetect]_vars

\* C19: the noise scale is at least 1 at every pixel of every image, so the
\* z-score is finite there and its magnitude is at most |gray - background|.
C19_NoiseFloor ==
    dpc = "scored" =>
        \A i \in 1..Len(dPixels) :
            /\ dSigma[i] >= 1
            /\ dZ[i][2] # 0
            /\ abs(dZ[i][1]) <= abs(dPixels[i].gray - dPixels[i].background) * dZ[i][2]

\* an all-zero image: residual 0 everywhere, noise scale 1, z-score 0
C19_Witness ==
    /\ dpc = "scored"
    /\ Len(dPixels) = MaxImagePixels
    /\ \A i \in 1..Len(dPixels) :
          /\ dPixels[i] = [gray |-> 0, background |-> 0, absResidual |-> 0]
          /\ dSigma[i] = 1
          /\ dZ[i] = num(0)

\* C20: for every integer bgKernel the kernel size is odd and at least 3;
\* for bgKernel >= 3 it is bgKernel when that is odd and bgKernel + 1 when
\* it is even.
C20_OddKernel ==
    dpc \in {"kernel", "scored"} =>
        /\ dK % 2 = 1
        /\ dK >= 3
        /\ dBgKernel >= 3 =>
              dK = IF dBgKernel % 2 = 1 THEN dBgKernel ELSE dBgKernel + 1

\* an even bgKernel was raised to the next odd number
C20_Witness ==
    /\ dpc = "kernel"
    /\ dBgKernel >= 4 /\ dBgKernel % 2 = 0
    /\ dK = dBgKernel + 1

\* C23: a horizontal export that is aborted for missing observer data leaves
\* the file at the chosen path as it was: neither created nor emptied.
C23_AbortLeavesFile ==
    [][(/\ xpc = "input" /\ xpc' = "exported"
        /\ xDialog.mode = "horizontal"
        /\ xResult'.message \in {LatitudeRequired, SiderealRequired})
       => xFile' = xFile]_vars


(***************************************************************************)
(* Spec: the session of App.  The image loaded is 20 x 60 pixels, so the   *)
(* default ProjectionMeta of loadImage has centre (10,30) and radius 10.   *)
(***************************************************************************)
SessionImage == [width |-> 20, height |-> 60]

min(a, b) == IF a < b THEN a ELSE b

\* lines 451-454: the default ProjectionMeta of an image of even width and height
defaultMeta(width, height) ==
    ProjectionMeta(width, height, width \div 2, height \div 2, min(width, height) \div 2)

\* MetaDialog.__init__, lines 747-754: what a box of an optional field shows
boxValue(optional) == IF optional.has THEN optional.val ELSE 0

LoadFailed == "Failed to load"

\* Mutant of lines 461-462: the previous frame is kept across a load.
keepIdentities(previous) == previous

\* lines 461-462: self.prevPts = [], self.prevMeta = []
resetIdentities(previous) == <<>>

\* Mutant of MetaDialog.value: the latitude box is not read.
valueWithoutLatitude(meta_, siderealTime, latitude, longitude) ==
    [meta_ EXCEPT !.greenwichSiderealTime = Some(siderealTime),
                  !.observerLongitude = Some(longitude)]

\* MetaDialog.value (lines 772-783) with the boxes of the geometry and the
\* orientation left as they were shown
value(meta_, siderealTime, latitude, longitude) ==
    [meta_ EXCEPT !.greenwichSiderealTime = Some(siderealTime),
                  !.observerLatitude = Some(latitude),
                  !.observerLongitude = Some(longitude)]

\* Mutant of the failing loadImage: the identities are reset before the image
\* is found to be unreadable.
LoadImageFailedAfterReset ==
    /\ report' = LoadFailed
    /\ lastOp' = "loadFailed"
    /\ prevPts' = <<>>
    /\ prevMeta' = <<>>
    /\ UNCHANGED <<bgr, meta, previewMode, modelRows, metaAccepted>>
    /\ UNCHANGED filterVars
    /\ UNCHANGED matchVars
    /\ UNCHANGED unitVars

Init ==
    /\ bgr = "None"
    /\ meta = None
    /\ previewMode = "single"
    /\ prevPts = <<>>
    /\ prevMeta = <<>>
    /\ modelRows = <<>>
    /\ report = ""
    /\ metaAccepted = FALSE
    /\ lastOp = "init"
    /\ FilterIdle
    /\ MatchIdle
    /\ UnitsIdle

\* loadImage (lines 445-463), the image decoded: the session is reset and
\* updateView runs on the new image
LoadImage ==
    /\ bgr' = "image"
    /\ meta' = Some(defaultMeta(SessionImage.width, SessionImage.height))
    /\ \E detected \in DetectOutputs,
          minSeparation \in MinSeparationValues, maxKeep \in MaxStarsValues :
           updateViewFrom(detected, minSeparation, maxKeep,
                          resetIdentities(prevPts), resetIdentities(prevMeta))
    /\ previewMode' \in {"single", "dual"}
    /\ metaAccepted' = FALSE
    /\ report' = ""
    /\ lastOp' = "loadImage"
    /\ UNCHANGED filterVars
    /\ UNCHANGED matchVars
    /\ UNCHANGED unitVars

\* loadImage, cv2.imread returning None (lines 446-449)
LoadImageFailed ==
    /\ report' = LoadFailed
    /\ lastOp' = "loadFailed"
    /\ UNCHANGED <<bgr, meta, previewMode, prevPts, prevMeta, modelRows>>
    /\ UNCHANGED metaAccepted
    /\ UNCHANGED filterVars
    /\ UNCHANGED matchVars
    /\ UNCHANGED unitVars

\* updateView (lines 516-563), called by onParams when a slider moves
UpdateView ==
    /\ bgr # "None"
    /\ \E detected \in DetectOutputs,
          minSeparation \in MinSeparationValues, maxKeep \in MaxStarsValues :
           updateViewFrom(detected, minSeparation, maxKeep, prevPts, prevMeta)
    /\ report' = ""
    /\ lastOp' = "updateView"
    /\ UNCHANGED <<bgr, meta, previewMode, metaAccepted>>
    /\ UNCHANGED filterVars
    /\ UNCHANGED matchVars
    /\ UNCHANGED unitVars

\* DetectionModel.setData (lines 259-266) on the name column of row r, and
\* App.onModelChanged (lines 488-495), which nameEdited calls
SetData ==
    /\ \E r \in 1..Len(modelRows), value_ \in TypedNames :
           LET rows == [modelRows EXCEPT ![r].name = value_]
           IN  /\ modelRows' = rows
               /\ prevMeta' = metaOf(rows)
    /\ report' = ""
    /\ lastOp' = "setData"
    /\ UNCHANGED <<bgr, meta, previewMode, prevPts, metaAccepted>>
    /\ UNCHANGED filterVars
    /\ UNCHANGED matchVars
    /\ UNCHANGED unitVars

\* onEditMeta (lines 475-481), the dialog accepted with its boxes left as
\* they were shown; updateView runs.  (A cancelled dialog changes nothing.)
OnEditMeta ==
    /\ bgr # "None"
    /\ \E siderealTime \in {boxValue(meta.val.greenwichSiderealTime)},
          latitude \in {boxValue(meta.val.observerLatitude)},
          longitude \in {boxValue(meta.val.observerLongitude)},
          detected \in DetectOutputs,
          minSeparation \in MinSeparationValues, maxKeep \in MaxStarsValues :
           /\ meta' = Some(value(meta.val, siderealTime, latitude, longitude))
           /\ updateViewFrom(detected, minSeparation, maxKeep, prevPts, prevMeta)
    /\ metaAccepted' = TRUE
    /\ report' = ""
    /\ lastOp' = "editMeta"
    /\ UNCHANGED <<bgr, previewMode>>
    /\ UNCHANGED filterVars
    /\ UNCHANGED matchVars
    /\ UNCHANGED unitVars

\* onExportTxt (lines 662-714) on the session's meta and table.  The file it
\* writes is no part of the session (SpecExport is about it); the message box
\* it ends with is.
OnExportTxt ==
    /\ \E dialog \in [loaded : {bgr # "None" /\ meta.has}, accepted : BOOLEAN,
                      mode : {"equatorial", "horizontal"}, includeGHA : BOOLEAN,
                      path : {"", "catalog.txt"}] :
         \E out \in { onExportTxt(meta.val, dialog, modelRows,
                                  [exists |-> FALSE, lines |-> <<>>]) } :
            /\ report' = out.result.message
            /\ lastOp' = IF ~out.result.opened THEN "exportTxt"
                          ELSE IF dialog.mode = "horizontal" THEN "exportHorizontal"
                          ELSE "exportEquatorial"
    /\ UNCHANGED <<bgr, meta, previewMode, prevPts, prevMeta, modelRows, metaAccepted>>
    /\ UNCHANGED filterVars
    /\ UNCHANGED matchVars
    /\ UNCHANGED unitVars

Next ==
    \/ LoadImage \/ LoadImageFailed \/ UpdateView \/ SetData
    \/ OnEditMeta \/ OnExportTxt

Spec == Init /\ [][Next]_vars

(***************************************************************************)
(* Claims about the session, checked under Spec.                           *)
(***************************************************************************)
Identity(n) == [j \in 1..n |-> j]

\* C6 (as claimed): if the previous and the current point lists are identical,
\* matchPoints matches every current index j to previous index j, and the name
\* propagation of updateView gives every candidate whose previous name was custom
\* (different from its id) that same name again.
C6_IdenticalListsCarry ==
    [][ (lastOp' = "updateView" /\ prevPts' = prevPts) =>
            /\ matchPoints(prevPts, prevPts', matchMaxDist) = Identity(Len(prevPts))
            /\ \A j \in 1..Len(prevMeta) :
                   prevMeta[j].name # prevMeta[j].id =>
                       modelRows'[j].name = prevMeta[j].name ]_vars

\* the label at 0-based position i: letter number (i mod 26) of A..Z, then (i div 26)+1
LabelAt(i) == letters[(i % 26) + 1] \o ToString((i \div 26) + 1)

\* labels is a list of n pairwise distinct labels, each the label of its position
LabelsAsClaimed(labels, n) ==
    /\ Len(labels) = n
    /\ \A i \in 1..n : labels[i] = LabelAt(i - 1)
    /\ \A i, j \in 1..n : i # j => labels[i] # labels[j]

LabelsClosedForm == \A n \in 0..MaxLabels : LabelsAsClaimed(labelsForN(n), n)

\* C9: the identity labels of one detection pass are unique and depend only on the
\* list position: labelsForN(n) returns exactly n pairwise distinct labels, the
\* label at 0-based position i being letter number (i mod 26) of A..Z followed by
\* the number (i div 26)+1, and after every pass candidate j of the table has the
\* id of position j, whatever the previous frame was.
C9_LabelsByPosition ==
    /\ LabelsClosedForm
    /\ \A j \in 1..Len(modelRows) : modelRows[j].id = LabelAt(j - 1)
    /\ \A j, k \in 1..Len(modelRows) : j # k => modelRows[j].id # modelRows[k].id

\* a pass over a previous frame with a renamed candidate: two candidates, the
\* second carrying the name typed for a candidate of the previous frame
C9_Witness ==
    /\ lastOp = "updateView"
    /\ Len(modelRows) = 2
    /\ modelRows[2].id = "B1"
    /\ modelRows[2].name = "Vega"

\* C10 (as claimed): in a detection pass a current candidate's name is the name of
\* its matched previous candidate exactly when it is matched and that previous
\* candidate's name differed from the previous candidate's own id (for any such
\* name, including an empty one); in every other case its name is its new id.
C10_NamePropagation ==
    [][ lastOp' = "updateView" =>
            \A j \in 1..Len(modelRows') :
                LET i == matchPoints(prevPts, prevPts', matchMaxDist)[j]
                IN  IF i # 0 /\ prevMeta[i].name # prevMeta[i].id
                    THEN modelRows'[j].name = prevMeta[i].name
                    ELSE modelRows'[j].name = modelRows'[j].id ]_vars

\* C24: a name the user gave survives the next pass: a candidate of the previous
\* frame whose name is non-empty and differs from its id, detected again at
\* exactly the same centre, carries that name, whatever else is detected.
C24_NameSurvives ==
    [][ lastOp' \in {"updateView", "editMeta"} =>
            \A i \in 1..Len(prevMeta) :
                (prevMeta[i].name # "" /\ prevMeta[i].name # prevMeta[i].id) =>
                    \A j \in 1..Len(modelRows') :
                        prevPts'[j] = prevPts[i] =>
                            modelRows'[j].name = prevMeta[i].name ]_vars

\* C25: prevPts, prevMeta and the table rows have the same length and describe
\* the same pass in the same order: prevPts[i] is the centre of row i,
\* prevMeta[i] has row i's id and name, and prevMeta[i].custom is true exactly
\* when the name differs from the id.
C25_SessionInvariant ==
    /\ Len(prevPts) = Len(modelRows)
    /\ Len(prevMeta) = Len(modelRows)
    /\ \A i \in 1..Len(modelRows) :
          /\ prevPts[i] = <<modelRows[i].centerX, modelRows[i].centerY>>
          /\ prevMeta[i].id = modelRows[i].id
          /\ prevMeta[i].name = modelRows[i].name
          /\ prevMeta[i].custom <=> (modelRows[i].name # modelRows[i].id)

\* a name has just been typed for the second of two candidates
C25_Witness ==
    /\ lastOp = "setData"
    /\ Len(modelRows) = 2
    /\ ~prevMeta[1].custom
    /\ prevMeta[2].custom /\ prevMeta[2].name = "Vega"

\* C26: the first pass after an image has been loaded carries no name: every
\* candidate's name is its id.
C26_FreshSession ==
    lastOp = "loadImage" =>
        \A j \in 1..Len(modelRows) :
            /\ modelRows[j].name = modelRows[j].id
            /\ ~prevMeta[j].custom

\* an image has been loaded, its first pass has two candidates
C26_Witness ==
    /\ lastOp = "loadImage"
    /\ Len(modelRows) = 2
    /\ modelRows[1].name = "A1" /\ modelRows[2].name = "B1"

\* C27: a load that fails reports the error and leaves the image, the
\* ProjectionMeta, the preview mode, prevPts, prevMeta and the table rows as
\* they were.
C27_FailedLoadChangesNothing ==
    [][ lastOp' = "loadFailed" =>
            /\ report' = LoadFailed
            /\ UNCHANGED <<bgr, meta, previewMode, prevPts, prevMeta, modelRows>> ]_vars

\* a load failed in a session with an image, a dual preview and a named candidate
C27_Witness ==
    /\ lastOp = "loadFailed"
    /\ bgr = "image" /\ previewMode = "dual"
    /\ \E i \in 1..Len(prevMeta) : prevMeta[i].custom
    /\ report = LoadFailed

MissingObserverData == {LatitudeRequired, SiderealRequired}

\* C30: once the MetaDialog has been accepted since the last load, sidereal
\* time, latitude and longitude of the session's ProjectionMeta are all
\* present, and a horizontal export that reaches the file is saved; missing
\* observer data is reported only while the dialog has not been accepted
\* since the last load.
C30_AcceptedMetaIsComplete ==
    /\ metaAccepted =>
          /\ meta.has
          /\ meta.val.greenwichSiderealTime.has
          /\ meta.val.observerLatitude.has
          /\ meta.val.observerLongitude.has
    /\ (metaAccepted /\ lastOp = "exportHorizontal") => report = Saved
    /\ report \in MissingObserverData => ~metaAccepted

\* a horizontal export of two rows after the dialog was accepted with its
\* observer fields never entered
C30_Witness ==
    /\ lastOp = "exportHorizontal"
    /\ metaAccepted
    /\ meta.val.observerLatitude = Some(0)
    /\ Len(modelRows) = 2
    /\ report = Saved

(***************************************************************************)
(* The object-file reader (src/SpaceEngine_Automation/seObjectParser.py)   *)
(***************************************************************************)
\* lines 52-54: roots = List[Block] = [] is a chained assignment; its second
\* target List[Block] = [] stores into typing.List, which raises TypeError
\* before a line of text is read
parseBlocks(text) ==
    [raised |-> "TypeError", roots |-> <<>>]

\* line 36: the test of Block.findChild
matchesChild(child, type, name) ==
    child.type = type /\ (~name.has \/ child.name = name)

NoBlock == [found |-> FALSE, block |-> <<>>]

\* lines 81-88: findBlock; queue starts as roots[:]
RECURSIVE findBlock(_, _, _)
findBlock(queue, type, name) ==
    IF queue = <<>> THEN NoBlock
    ELSE LET block == Head(queue)
         IN  IF block.type = type /\ (name.has \/ block.name = name)
             THEN [found |-> TRUE, block |-> block]
             ELSE findBlock(Tail(queue) \o block.children, type, name)

(***************************************************************************)
(* SpecParse: parseBlocks applied to a bounded text                        *)
(***************************************************************************)
MaxLines == 3       \* most lines of a text given to parseBlocks

OpenLines == {"Planet \"Earth\" {", "Moon {"}
CloseLine == "}"
TextLines == OpenLines \cup {CloseLine, "Mass 1"}

InitParse ==
    /\ tpc = "input"
    /\ tText \in SeqsUpTo(TextLines, MaxLines)
    /\ tResult = <<>>
    /\ FilterIdle /\ MatchIdle /\ SessionIdle
    /\ ProjectionIdle /\ ExportIdle /\ DetectIdle /\ FindIdle
    /\ HaloIdle /\ ComponentsIdle

Parse ==
    /\ tpc = "input"
    /\ tpc' = "parsed"
    /\ tResult' = parseBlocks(tText)
    /\ UNCHANGED tText
    /\ UNCHANGED <<filterVars, matchVars, sessionVars>>
    /\ UNCHANGED <<projVars, exportVars, detectVars, findVars>>
    /\ UNCHANGED <<haloVars, componentVars>>

NextParse == Parse

SpecParse == InitParse /\ [][NextParse]_vars

\* The nesting depth after each line of a text, as the braces give it.
RECURSIVE depthAfter(_, _)
depthAfter(lines, n) ==
    IF n = 0 THEN 0
    ELSE LET before == depthAfter(lines, n - 1)
         IN  IF lines[n] \in OpenLines THEN before + 1
             ELSE IF lines[n] = CloseLine THEN before - 1
             ELSE before

Balanced(lines) ==
    /\ \A n \in 1..Len(lines) : depthAfter(lines, n) >= 0
    /\ depthAfter(lines, Len(lines)) = 0

TopLevelBlocks(lines) ==
    {n \in 1..Len(lines) : lines[n] \in OpenLines /\ depthAfter(lines, n - 1) = 0}

\* C28: for a text whose braces are balanced parseBlocks returns, and its roots
\* are the blocks opened at nesting depth 0 (a line holding only a closing brace
\* ends the innermost open block, so the block opened next is a sibling).
C28_BraceNesting ==
    (tpc = "parsed" /\ Balanced(tText))
        => /\ tResult.raised = ""
           /\ Len(tResult.roots) = Cardinality(TopLevelBlocks(tText))

(***************************************************************************)
(* SpecFind: findBlock applied to a bounded forest of Blocks               *)
(***************************************************************************)
MaxChildren == 1    \* most children of a Block of the forest
MaxRoots == 2       \* most roots of the forest

BlockTypes == {"Planet", "Moon"}
BlockNames == {NoName, [has |-> TRUE, name |-> "Earth"], [has |-> TRUE, name |-> "Mars"]}
WantedNames == {NoName, [has |-> TRUE, name |-> "Earth"]}

\* Blocks as the caller can build them: a type, an optional name, children.
ChildBlocks == [type : {"Planet"}, name : BlockNames, children : {<<>>}]
Blocks == [type : BlockTypes, name : BlockNames,
           children : SeqsUpTo(ChildBlocks, MaxChildren)]

InitFind ==
    /\ qpc = "input"
    /\ qRoots \in SeqsUpTo(Blocks, MaxRoots)
    /\ qType = "Planet"
    /\ qName \in WantedNames
    /\ qFound = <<>>
    /\ FilterIdle /\ MatchIdle /\ SessionIdle
    /\ ProjectionIdle /\ ExportIdle /\ DetectIdle /\ ParseIdle
    /\ HaloIdle /\ ComponentsIdle

Find ==
    /\ qpc = "input"
    /\ qpc' = "found"
    /\ qFound' = findBlock(qRoots, qType, qName)
    /\ UNCHANGED <<qRoots, qType, qName>>
    /\ UNCHANGED <<filterVars, matchVars, sessionVars>>
    /\ UNCHANGED <<projVars, exportVars, detectVars, parseVars>>
    /\ UNCHANGED <<haloVars, componentVars>>

NextFind == Find

SpecFind == InitFind /\ [][NextFind]_vars

\* The blocks of a forest in breadth-first order.
RECURSIVE breadthFirst(_)
breadthFirst(queue) ==
    IF queue = <<>> THEN <<>>
    ELSE <<Head(queue)>> \o breadthFirst(Tail(queue) \o Head(queue).children)

\* C29: findBlock returns the first block, in breadth-first order, that
\* Block.findChild's rule accepts: of the type and, when a name is given, of
\* that name; None when there is none.
C29_SameRuleAsFindChild ==
    qpc = "found" =>
        LET order == breadthFirst(qRoots)
            hits  == {n \in 1..Len(order) : matchesChild(order[n], qType, qName)}
        IN  IF hits = {} THEN ~qFound.found
            ELSE /\ qFound.found
                 /\ \E n \in hits : /\ \A k \in hits : n <= k
                                    /\ qFound.block = order[n]

(***************************************************************************)
(* The candidate mask of detectStars (lines 110-139), pixel by pixel.      *)
(* What morphologyEx, GaussianBlur and threshold make of a pixel depends   *)
(* on its neighbourhood, and whether a halo disc covers it on the bright   *)
(* components; both are given with the pixel.  z is a whole number here.   *)
(***************************************************************************)
\* lines 111-116: the SNR mask at a pixel, after the clean-up if it runs
snrMaskAt(pixel, snrThreshold, blur) ==
    IF blur # 0 /\ blur > 1 THEN pixel.cleaned ELSE pixel.z > snrThreshold

\* lines 136-139: veryHigh, keep and the two bitwise operations at a pixel
suppressedAt(snrMask, pixel, snrThreshold) ==
    LET veryHigh == pixel.z > snrThreshold * 2
        keep     == pixel.halo /\ veryHigh
    IN  (snrMask /\ ~pixel.halo) \/ keep

MaxHaloPixels == 2  \* pixels of the image that are followed

ZScores == {0, 13, 25}
SnrThresholds == {12}
Blurs == {1, 3}
HaloPixels == [z : ZScores, cleaned : BOOLEAN, halo : BOOLEAN]

InitHalo ==
    /\ hpc = "input"
    /\ hPixels \in SeqsUpTo(HaloPixels, MaxHaloPixels)
    /\ hThreshold \in SnrThresholds
    /\ hBlur \in Blurs
    /\ hSuppress \in BOOLEAN
    /\ hSnrMask = <<>>
    /\ hMask = <<>>
    /\ FilterIdle /\ MatchIdle /\ SessionIdle
    /\ ProjectionIdle /\ ExportIdle /\ DetectIdle
    /\ ParseIdle /\ FindIdle /\ ComponentsIdle

\* lines 110-116
CleanMask ==
    /\ hpc = "input"
    /\ hpc' = "cleaned"
    /\ hSnrMask' = [p \in 1..Len(hPixels) |-> snrMaskAt(hPixels[p], hThreshold, hBlur)]
    /\ UNCHANGED <<hPixels, hThreshold, hBlur, hSuppress, hMask>>
    /\ UNCHANGED <<filterVars, matchVars, sessionVars>>
    /\ UNCHANGED <<projVars, exportVars, detectVars>>
    /\ UNCHANGED <<parseVars, findVars, componentVars>>

\* lines 123-139
SuppressHalo ==
    /\ hpc = "cleaned"
    /\ hpc' = "final"
    /\ hMask' = IF hSuppress
                THEN [p \in 1..Len(hPixels) |->
                         suppressedAt(hSnrMask[p], hPixels[p], hThreshold)]
                ELSE hSnrMask
    /\ UNCHANGED <<hPixels, hThreshold, hBlur, hSuppress, hSnrMask>>
    /\ UNCHANGED <<filterVars, matchVars, sessionVars>>
    /\ UNCHANGED <<projVars, exportVars, detectVars>>
    /\ UNCHANGED <<parseVars, findVars, componentVars>>

NextHalo == CleanMask \/ SuppressHalo

SpecHalo == InitHalo /\ [][NextHalo]_vars

\* C22: halo suppression only removes detections: with it enabled every pixel
\* of the final mask was in the cleaned SNR mask, a pixel inside a halo disc
\* is in the final mask only if its z exceeds twice the threshold, and a
\* pixel outside every disc is as it was; with it disabled the final mask is
\* the cleaned SNR mask.
C22_OnlyRemoves ==
    hpc = "final" =>
        IF hSuppress
        THEN \A p \in 1..Len(hPixels) :
                /\ hMask[p] => hSnrMask[p]
                /\ (hPixels[p].halo /\ hMask[p]) => hPixels[p].z > hThreshold * 2
                /\ ~hPixels[p].halo => (hMask[p] <=> hSnrMask[p])
        ELSE hMask = hSnrMask

(***************************************************************************)
(* The rows of detectStars (lines 141-159).  A component is given by what  *)
(* cv2.connectedComponentsWithStats and the gray image say of it: its      *)
(* centroid, its area (the number of its pixels, which is also mask.sum()) *)
(* and the sum of the gray values of its pixels.                           *)
(***************************************************************************)
\* line 146
areaOutside(area, minArea, maxArea) == area < minArea \/ area > maxArea

\* lines 148-155: the row appended for a component
rowOf(component) ==
    LET maskSum == component.area
        sI      == component.sumIntensity
        meanI   == frac(sI, maskSum)
    IN  [centerX |-> component.centerX, centerY |-> component.centerY,
         area |-> component.area, sumIntensity |-> sI, meanIntensity |-> meanI]

\* lines 144-155: the loop over the labels from i on
RECURSIVE componentLoop(_, _, _, _, _)
componentLoop(components, i, rows, minArea, maxArea) ==
    IF i > Len(components) THEN rows
    ELSE IF areaOutside(components[i].area, minArea, maxArea)
         THEN componentLoop(components, i + 1, rows, minArea, maxArea)
         ELSE IF components[i].area = 0
              THEN componentLoop(components, i + 1, rows, minArea, maxArea)
              ELSE componentLoop(components, i + 1, Append(rows, rowOf(components[i])),
                                 minArea, maxArea)

\* Mutant of the sort key: the area does not break ties.
keyAtLeastBySum(a, b) == a.sumIntensity >= b.sumIntensity

\* line 157: (a.sumIntensity, a.area) >= (b.sumIntensity, b.area), as tuples
keyAtLeast(a, b) ==
    \/ a.sumIntensity > b.sumIntensity
    \/ a.sumIntensity = b.sumIntensity /\ a.area >= b.area

\* rows.sort(key=..., reverse=True) is stable: rows of equal key keep their order
insertByKey(sorted, row) ==
    LET p == Cardinality({k \in 1..Len(sorted) : keyAtLeast(sorted[k], row)})
    IN  SubSeq(sorted, 1, p) \o <<row>> \o SubSeq(sorted, p + 1, Len(sorted))

RECURSIVE sortedByKey(_)
sortedByKey(rows) ==
    IF rows = <<>> THEN <<>>
    ELSE insertByKey(sortedByKey(SubSeq(rows, 1, Len(rows) - 1)), rows[Len(rows)])

\* lines 141-159: the rows returned for the components of the final mask
rowsOfComponents(components, minArea, maxArea) ==
    sortedByKey(componentLoop(components, 1, <<>>, minArea, maxArea))

MaxComponents == 3  \* most components of the final mask

ComponentAreas == {1, 12, 51}
ComponentSums == {255, 510}
MinAreas == {2, 12}
MaxAreas == {20, 51}

Components ==
    { c \in [centerX : {0, 10}, centerY : {0}, area : ComponentAreas,
             sumIntensity : ComponentSums] : c.sumIntensity <= 255 * c.area }

InitComponents ==
    /\ cpc = "input"
    /\ cComponents \in SeqsUpTo(Components, MaxComponents)
    /\ cMinArea \in MinAreas
    /\ cMaxArea \in MaxAreas
    /\ cRows = <<>>
    /\ FilterIdle /\ MatchIdle /\ SessionIdle
    /\ ProjectionIdle /\ ExportIdle /\ DetectIdle
    /\ ParseIdle /\ FindIdle /\ HaloIdle

ReturnRows ==
    /\ cpc = "input"
    /\ cpc' = "returned"
    /\ cRows' = rowsOfComponents(cComponents, cMinArea, cMaxArea)
    /\ UNCHANGED <<cComponents, cMinArea, cMaxArea>>
    /\ UNCHANGED <<filterVars, matchVars, sessionVars>>
    /\ UNCHANGED <<projVars, exportVars, detectVars>>
    /\ UNCHANGED <<parseVars, findVars, haloVars>>

NextComponents == ReturnRows

SpecComponents == InitComponents /\ [][NextComponents]_vars

InArea(area) == cMinArea <= area /\ area <= cMaxArea

\* how often x occurs in the sequence s
Occurrences(s, x) == Cardinality({k \in 1..Len(s) : s[k] = x})

\* the component a row describes
ComponentOf(row) ==
    [centerX |-> row.centerX, centerY |-> row.centerY, area |-> row.area,
     sumIntensity |-> row.sumIntensity]

\* C21: the rows returned are exactly the components whose area lies in
\* [minArea, maxArea], none of area zero, each with meanIntensity =
\* sumIntensity / area, in an order that is non-increasing in
\* (sumIntensity, area) compared lexicographically.
C21_RowsOfComponents ==
    cpc = "returned" =>
        /\ \A k \in 1..Len(cRows) :
              /\ InArea(cRows[k].area) /\ cRows[k].area > 0
              /\ cRows[k].meanIntensity = frac(cRows[k].sumIntensity, cRows[k].area)
              /\ Occurrences(cRows, cRows[k])
                    = Occurrences(cComponents, ComponentOf(cRows[k]))
        /\ \A i \in 1..Len(cComponents) :
              InArea(cComponents[i].area) =>
                  \E k \in 1..Len(cRows) : ComponentOf(cRows[k]) = cComponents[i]
        /\ \A k \in 1..(Len(cRows) - 1) :
              \/ cRows[k].sumIntensity > cRows[k + 1].sumIntensity
              \/ /\ cRows[k].sumIntensity = cRows[k + 1].sumIntensity
                 /\ cRows[k].area >= cRows[k + 1].area

\* three components, the first too small, the other two of equal sum and
\* returned in the order of their areas, the reverse of the order found
C21_Witness ==
    /\ cpc = "returned"
    /\ Len(cComponents) = 3 /\ Len(cRows) = 2
    /\ cComponents[2].area < cComponents[3].area
    /\ cRows[1].sumIntensity = cRows[2].sumIntensity
    /\ cRows[1].area > cRows[2].area

====
